---- MODULE Spec2Model ----
(***************************************************************************)
(* Model of tasks/build.py: the invoke tasks setup_node,                   *)
(* run_federalist_script, setup_ruby, build_jekyll, install_hugo,          *)
(* build_hugo and build_static, run one statement at a time on one         *)
(* invoke Context (its command_prefixes and command_cwds stacks), with     *)
(* every subprocess started by ctx.run free to exit with any code.         *)
(***************************************************************************)
EXTENDS Integers, Sequences, FiniteSets, TLC

VARIABLES
    args,              \* the task's arguments: kind, branch, base_url, config, hugo_version
    repo,              \* marker files of the clone directory as found at start
    configYml,         \* content of _config.yml
    entries,           \* top-level entries of the clone directory (output dir apart)
    outExists,         \* whether SITE_BUILD_DIR_PATH exists
    outEntries,        \* entries that were moved into the output directory
    files,             \* build_static: entries of os.listdir still to visit
    command_prefixes,  \* ctx.command_prefixes
    command_cwds,      \* ctx.command_cwds
    stack,             \* context managers entered and not yet exited, innermost last
    pend,              \* node_context: contexts still to enter
    acq,               \* context managers entered by the current task, in order
    rel,               \* context managers exited by the current task, in order
    pc,                \* position in the current task
    task,              \* the task being executed
    queue,             \* tasks still to execute
    log,               \* every effect so far: subprocesses and file operations
    exitCode,          \* exit code of the program, -1 while it runs
    exc                \* the exception that aborted the program, "" if none

vars == <<args, repo, configYml, entries, outExists, outEntries, files,
          command_prefixes, command_cwds, stack, pend, acq, rel,
          pc, task, queue, log, exitCode, exc>>

\* Largest exit code a subprocess returns in the model.
MaxExit == 2

------------------------------------------------------------------------------
\* Paths and names.

WORKING_DIR == "/work"
CLONE_DIR_PATH == "/work/site_repo"
SITE_BUILD_DIR == "_site"
SITE_BUILD_DIR_PATH == "/work/site_repo/_site"

NVM_SH_PATH == "$NVM_DIR/nvm.sh"
RVM_PATH == "/usr/local/rvm/scripts/rvm"

------------------------------------------------------------------------------
\* Small helpers.

Last(s) == s[Len(s)]
Front(s) == SubSeq(s, 1, Len(s) - 1)

RECURSIVE Reverse(_)
Reverse(s) == IF s = <<>> THEN <<>> ELSE Append(Reverse(Tail(s)), Head(s))

RECURSIVE Concat(_)
\* ''.join(lines): what file.writelines writes
Concat(lines) == IF lines = <<>> THEN "" ELSE Head(lines) \o Concat(Tail(lines))

RECURSIVE Flatten(_)
Flatten(ss) == IF ss = <<>> THEN <<>> ELSE Head(ss) \o Flatten(Tail(ss))

Whitespace == {" ", "\n", "\t"}

RECURSIVE LStrip(_)
LStrip(s) == IF s # <<>> /\ Head(s) \in Whitespace THEN LStrip(Tail(s)) ELSE s

\* str.strip() on a line given as a sequence of pieces
Strip(s) == Concat(Reverse(LStrip(Reverse(LStrip(s)))))

\* context managers of the invoke Context
Prefix(command) == [kind |-> "prefix", arg |-> command]
Cd(path) == [kind |-> "cd", arg |-> path]

SourceNvm == Prefix("source " \o NVM_SH_PATH)
NvmUse == Prefix("nvm use")
SourceRvm == Prefix("source " \o RVM_PATH)

------------------------------------------------------------------------------
\* Inputs.

Kinds == {"build_jekyll", "build_hugo", "build_static"}

\* package.json: absent, not JSON, without "scripts", with scripts
PackageJsons ==
    { [is_file |-> FALSE, valid |-> FALSE, keys |-> {}, scripts |-> {}],
      [is_file |-> TRUE, valid |-> FALSE, keys |-> {}, scripts |-> {}],
      [is_file |-> TRUE, valid |-> TRUE, keys |-> {"name"}, scripts |-> {}],
      [is_file |-> TRUE, valid |-> TRUE, keys |-> {"name", "scripts"}, scripts |-> {"test"}],
      [is_file |-> TRUE, valid |-> TRUE, keys |-> {"name", "scripts"},
       scripts |-> {"test", "federalist"}] }

\* .ruby-version: absent, a blank first line, a version
RubyVersions ==
    { [is_file |-> FALSE, line |-> <<>>],
      [is_file |-> TRUE, line |-> <<"\n">>],
      [is_file |-> TRUE, line |-> <<"2.6.3", "\n">>] }

NoRuby == [is_file |-> FALSE, line |-> <<>>]

Repo(pj, nvmrc, rv, gem, yml, inClone) ==
    [packageJson |-> pj, nvmrc |-> nvmrc, rubyVersion |-> rv, gemfile |-> gem,
     configYml0 |-> yml, outInClone |-> inClone]

Args(kind, branch, base_url, config) ==
    [kind |-> kind, branch |-> branch, base_url |-> base_url, config |-> config,
     hugo_version |-> "0.23"]

------------------------------------------------------------------------------
\* Task ordering: the pre= lists of the @task decorators.

\* variant: build_jekyll lists setup_ruby before run_federalist_script
PreRubyFirst(t) ==
    CASE t = "run_federalist_script" -> <<"setup_node">>
      [] t = "build_jekyll" -> <<"setup_ruby", "run_federalist_script">>
      [] t = "build_hugo" -> <<"run_federalist_script">>
      [] t = "build_static" -> <<"run_federalist_script", "clean">>
      [] OTHER -> <<>>

Pre(t) ==
    CASE t = "run_federalist_script" -> <<"setup_node">>
      [] t = "build_jekyll" -> <<"run_federalist_script", "setup_ruby">>
      [] t = "build_hugo" -> <<"run_federalist_script">>
      [] t = "build_static" -> <<"run_federalist_script", "clean">>
      [] OTHER -> <<>>

RECURSIVE Expand(_)
\* the executor runs a task's pre-tasks, and theirs, before the task
Expand(t) ==
    Flatten([i \in 1..Len(Pre(t)) |-> Expand(Pre(t)[i])]) \o <<t>>

------------------------------------------------------------------------------
\* Detection.

PACKAGE_JSON_is_file == repo.packageJson.is_file
NVMRC_is_file == repo.nvmrc
RUBY_VERSION_is_file == repo.rubyVersion.is_file
GEMFILE_is_file == repo.gemfile

\* dict.get(key, default) on the parsed package.json
Get(package_json, key, default) ==
    IF key \in package_json.keys THEN package_json.scripts ELSE default

\* json.load raises on a file that is not JSON
json_load_raises == repo.packageJson.is_file /\ ~repo.packageJson.valid

has_federalist_script ==
    IF PACKAGE_JSON_is_file
    THEN "federalist" \in Get(repo.packageJson, "scripts", {})
    ELSE FALSE

\* os.listdir(CLONE_DIR_PATH), given the entries and whether the output
\* directory exists
Listdir(ents, exists) ==
    ents \cup (IF repo.outInClone /\ exists THEN {SITE_BUILD_DIR} ELSE {})

\* `file is not SITE_BUILD_DIR`: object identity. Two strings that differ are
\* never one object; two equal strings may or may not be.
IsNot(file) == IF file = SITE_BUILD_DIR THEN BOOLEAN ELSE {TRUE}

------------------------------------------------------------------------------
\* The invoke Context.

\* the directory a command runs in
Cwd == IF command_cwds = <<>> THEN "" ELSE Last(command_cwds)

Entry(op, cmd, env, code) ==
    [task |-> task, op |-> op, cmd |-> cmd, prefixes |-> command_prefixes,
     cwd |-> Cwd, env |-> env, code |-> code]

\* a file operation, outside any subprocess
Effect(op, what) ==
    [task |-> task, op |-> op, cmd |-> what, prefixes |-> <<>>,
     cwd |-> "", env |-> <<>>, code |-> 0]

\* variant: ctx.run(cmd, warn=True), which returns the failed result
\* instead of raising
RunWarn(cmd, env, nextpc) ==
    \E code \in 0..MaxExit :
        /\ log' = Append(log, Entry("run", cmd, env, code))
        /\ pc' = nextpc
        /\ exitCode' = exitCode
        /\ exc' = exc

\* ctx.run(cmd, env=env): the subprocess runs under the current prefixes and
\* cwd; a non-zero exit raises UnexpectedExit, which ends the program with
\* that code once the enclosing with-blocks are left.
Run(cmd, env, nextpc) ==
    \E code \in 0..MaxExit :
        /\ log' = Append(log, Entry("run", cmd, env, code))
        /\ IF code = 0
           THEN pc' = nextpc /\ exitCode' = exitCode /\ exc' = exc
           ELSE pc' = "unwind" /\ exitCode' = code /\ exc' = "UnexpectedExit"

\* an exception other than a failed subprocess
Raise(name) ==
    /\ pc' = "unwind"
    /\ exitCode' = 1
    /\ exc' = name

\* __enter__ of ctx.prefix / ctx.cd
Enter(cm) ==
    /\ stack' = Append(stack, cm)
    /\ acq' = Append(acq, cm)
    /\ IF cm.kind = "prefix"
       THEN /\ command_prefixes' = Append(command_prefixes, cm.arg)
            /\ command_cwds' = command_cwds
       ELSE /\ command_cwds' = Append(command_cwds, cm.arg)
            /\ command_prefixes' = command_prefixes

\* __exit__ of the innermost context manager: pops the Context's list
Exit ==
    /\ stack' = Front(stack)
    /\ rel' = Append(rel, Last(stack))
    /\ IF Last(stack).kind = "prefix"
       THEN /\ command_prefixes' = Front(command_prefixes)
            /\ command_cwds' = command_cwds
       ELSE /\ command_cwds' = Front(command_cwds)
            /\ command_prefixes' = command_prefixes

\* variant: `nvm use` appended after the caller's contexts
node_context_use_last(nvmrc_is_file, more_contexts) ==
    <<SourceNvm>> \o more_contexts \o (IF nvmrc_is_file THEN <<NvmUse>> ELSE <<>>)

node_context(nvmrc_is_file, more_contexts) ==
    <<SourceNvm>> \o (IF nvmrc_is_file THEN <<NvmUse>> ELSE <<>>) \o more_contexts

build_env(branch, owner, repository, site_prefix, base_url) ==
    << <<"BRANCH", branch>>, <<"OWNER", owner>>, <<"REPOSITORY", repository>>,
       <<"SITE_PREFIX", site_prefix>>, <<"BASEURL", base_url>> >>

fsVars == <<configYml, entries, outExists, outEntries, files>>
ctxVars == <<command_prefixes, command_cwds, stack, acq, rel>>
inVars == <<args, repo>>
runVars == <<log, pc, exitCode, exc>>

------------------------------------------------------------------------------
\* Initial state: one task requested on a freshly cloned repository.

Start(a, r, ents, exists) ==
    /\ args = a
    /\ repo = r
    /\ configYml = r.configYml0
    /\ entries = ents
    /\ outExists = exists
    /\ outEntries = {}
    /\ files = {}
    /\ command_prefixes = <<>>
    /\ command_cwds = <<>>
    /\ stack = <<>>
    /\ pend = <<>>
    /\ acq = <<>>
    /\ rel = <<>>
    /\ pc = "next"
    /\ task = ""
    /\ queue = Expand(a.kind)
    /\ log = <<>>
    /\ exitCode = -1
    /\ exc = ""

Init ==
    \E pj \in PackageJsons, nvmrc \in BOOLEAN :
        \/ \E rv \in RubyVersions, gem \in BOOLEAN, base_url \in {"", "/x"},
              config \in {"", "foo: bar\n"}, yml \in {"", "title: t\n"} :
               Start(Args("build_jekyll", "main", base_url, config),
                     Repo(pj, nvmrc, rv, gem, yml, TRUE), {".git"}, FALSE)
        \/ \E base_url \in {"", "/x"} :
               Start(Args("build_hugo", "main", base_url, ""),
                     Repo(pj, nvmrc, NoRuby, FALSE, "", TRUE), {".git"}, FALSE)
        \/ \E ents \in SUBSET {"a.txt", "b", ".git"}, inClone \in BOOLEAN,
              exists \in BOOLEAN :
               Start(Args("build_static", "", "", ""),
                     Repo(pj, nvmrc, NoRuby, FALSE, "", inClone), ents, exists)

------------------------------------------------------------------------------
\* The executor.

\* start the next task, on a Context with nothing entered
StartTask ==
    /\ pc = "next"
    /\ queue # <<>>
    /\ task' = Head(queue)
    /\ queue' = Tail(queue)
    /\ pc' = Head(queue)
    /\ acq' = <<>>
    /\ rel' = <<>>
    /\ UNCHANGED <<inVars, fsVars, command_prefixes, command_cwds, stack, pend,
                   log, exitCode, exc>>

\* every task returned: exit code 0
Finish ==
    /\ pc = "next"
    /\ queue = <<>>
    /\ pc' = "done"
    /\ exitCode' = 0
    /\ UNCHANGED <<inVars, fsVars, ctxVars, pend, task, queue, log, exc>>

\* the end of the task's with-blocks: leave them, innermost first
Leave ==
    /\ pc = "leave"
    /\ IF stack = <<>>
       THEN pc' = "next" /\ UNCHANGED ctxVars
       ELSE pc' = pc /\ Exit /\ UNCHANGED acq
    /\ UNCHANGED <<inVars, fsVars, pend, task, queue, log, exitCode, exc>>

\* variant: context managers without try/finally, left entered by an
\* exception
UnwindNoRelease ==
    /\ pc = "unwind"
    /\ pc' = "aborted"
    /\ UNCHANGED <<inVars, fsVars, ctxVars, pend, task, queue, log, exitCode, exc>>

\* an exception propagating: every with-block it passes is left, then the
\* program exits with the code of the failure
Unwind ==
    /\ pc = "unwind"
    /\ IF stack = <<>>
       THEN pc' = "aborted" /\ UNCHANGED ctxVars
       ELSE pc' = pc /\ Exit /\ UNCHANGED acq
    /\ UNCHANGED <<inVars, fsVars, pend, task, queue, log, exitCode, exc>>

\* node_context: `for cm in contexts: stack.enter_context(cm)`
EnterContext ==
    /\ pc \in {"rf_enter", "bj_enter", "bh_enter"}
    /\ IF pend # <<>>
       THEN /\ Enter(Head(pend))
            /\ pend' = Tail(pend)
            /\ pc' = pc
            /\ UNCHANGED rel
       ELSE /\ pc' = CASE pc = "rf_enter" -> "rf_run"
                       [] pc = "bj_enter" -> "bj_gem"
                       [] pc = "bh_enter" -> "bh_build"
            /\ UNCHANGED <<ctxVars, pend>>
    /\ UNCHANGED <<inVars, fsVars, task, queue, log, exitCode, exc>>

------------------------------------------------------------------------------
\* setup_node

SN_EnterCd ==
    /\ pc = "setup_node"
    /\ Enter(Cd(CLONE_DIR_PATH))
    /\ pc' = "sn_source"
    /\ UNCHANGED <<inVars, fsVars, rel, pend, task, queue, log, exitCode, exc>>

SN_EnterSource ==
    /\ pc = "sn_source"
    /\ Enter(SourceNvm)
    /\ pc' = "sn_nvmrc"
    /\ UNCHANGED <<inVars, fsVars, rel, pend, task, queue, log, exitCode, exc>>

SN_NvmInstall ==
    /\ pc = "sn_nvmrc"
    /\ IF NVMRC_is_file
       THEN Run("nvm install", <<>>, "sn_node_version")
       ELSE pc' = "sn_node_version" /\ UNCHANGED <<log, exitCode, exc>>
    /\ UNCHANGED <<inVars, fsVars, ctxVars, pend, task, queue>>

SN_NodeVersion ==
    /\ pc = "sn_node_version"
    /\ Run("node --version", <<>>, "sn_npm_version")
    /\ UNCHANGED <<inVars, fsVars, ctxVars, pend, task, queue>>

SN_NpmVersion ==
    /\ pc = "sn_npm_version"
    /\ Run("npm --version", <<>>, "sn_package")
    /\ UNCHANGED <<inVars, fsVars, ctxVars, pend, task, queue>>

\* variant: the install without the test for package.json
SN_AlwaysInstall ==
    /\ pc = "sn_package"
    /\ Enter(NvmUse)
    /\ pc' = "sn_install"
    /\ UNCHANGED <<inVars, fsVars, rel, pend, task, queue, log, exitCode, exc>>

\* `if PACKAGE_JSON_PATH.is_file(): with ctx.prefix('nvm use'):`
SN_CheckPackage ==
    /\ pc = "sn_package"
    /\ IF PACKAGE_JSON_is_file
       THEN Enter(NvmUse) /\ pc' = "sn_install" /\ UNCHANGED rel
       ELSE pc' = "leave" /\ UNCHANGED ctxVars
    /\ UNCHANGED <<inVars, fsVars, pend, task, queue, log, exitCode, exc>>

SN_NpmInstall ==
    /\ pc = "sn_install"
    /\ Run("npm install --production", <<>>, "leave")
    /\ UNCHANGED <<inVars, fsVars, ctxVars, pend, task, queue>>

------------------------------------------------------------------------------
\* run_federalist_script

RF_Check ==
    /\ pc = "run_federalist_script"
    /\ IF PACKAGE_JSON_is_file /\ json_load_raises
       THEN Raise("JSONDecodeError") /\ UNCHANGED pend
       ELSE /\ IF PACKAGE_JSON_is_file /\ has_federalist_script
               THEN /\ pend' = node_context(NVMRC_is_file, <<Cd(CLONE_DIR_PATH)>>)
                    /\ pc' = "rf_enter"
               ELSE /\ pc' = "next"
                    /\ UNCHANGED pend
            /\ UNCHANGED <<exitCode, exc>>
    /\ UNCHANGED <<inVars, fsVars, ctxVars, task, queue, log>>

\* the script is the repository's own: it may create the output directory
RF_Run ==
    /\ pc = "rf_run"
    /\ Run("npm run federalist", <<>>, "leave")
    /\ outExists' \in {outExists, TRUE}
    /\ UNCHANGED <<inVars, configYml, entries, outEntries, files, ctxVars, pend,
                   task, queue>>

------------------------------------------------------------------------------
\* setup_ruby

SR_EnterSource ==
    /\ pc = "setup_ruby"
    /\ Enter(SourceRvm)
    /\ pc' = "sr_version"
    /\ UNCHANGED <<inVars, fsVars, rel, pend, task, queue, log, exitCode, exc>>

\* f.readline().strip()
ruby_version ==
    IF RUBY_VERSION_is_file THEN Strip(repo.rubyVersion.line) ELSE ""

\* the command is a plain string literal, not an f-string: the braces and the
\* name between them are passed to the shell as written
RvmInstallCmd == "rvm install {ruby_version}"

SR_Install ==
    /\ pc = "sr_version"
    /\ IF RUBY_VERSION_is_file /\ ruby_version # ""
       THEN Run(RvmInstallCmd, <<>>, "sr_ruby_v")
       ELSE pc' = "sr_ruby_v" /\ UNCHANGED <<log, exitCode, exc>>
    /\ UNCHANGED <<inVars, fsVars, ctxVars, pend, task, queue>>

SR_RubyV ==
    /\ pc = "sr_ruby_v"
    /\ Run("ruby -v", <<>>, "leave")
    /\ UNCHANGED <<inVars, fsVars, ctxVars, pend, task, queue>>

------------------------------------------------------------------------------
\* build_jekyll

\* variant: the branch line written before the baseurl line
JekyllConfLinesBranchFirst(branch, base_url, config) ==
    << "\n" \o "branch: " \o branch \o "\n",
       "baseurl: " \o base_url \o "\n",
       config >>

\* the list given to f.writelines: '\n' and the baseurl line are adjacent
\* literals, so one element
JekyllConfLines(branch, base_url, config) ==
    << "\n" \o "baseurl: " \o base_url \o "\n",
       "branch: " \o branch \o "\n",
       config >>

jekyll_cmd == IF GEMFILE_is_file THEN "bundle exec " \o "jekyll" ELSE "jekyll"

\* open(JEKYLL_CONF_YML_PATH, 'a') ... writelines, then node_context(...)
BJ_Append ==
    /\ pc = "build_jekyll"
    /\ configYml' = configYml \o
                      Concat(JekyllConfLines(args.branch, args.base_url, args.config))
    /\ log' = Append(log, Effect("append", "_config.yml"))
    /\ pend' = node_context(NVMRC_is_file, <<SourceRvm, Cd(CLONE_DIR_PATH)>>)
    /\ pc' = "bj_enter"
    /\ UNCHANGED <<inVars, entries, outExists, outEntries, files, ctxVars,
                   task, queue, exitCode, exc>>

BJ_GemInstall ==
    /\ pc = "bj_gem"
    /\ IF GEMFILE_is_file
       THEN Run("gem install bundler", <<>>, "bj_bundle")
       ELSE Run("gem install jekyll", <<>>, "bj_version")
    /\ UNCHANGED <<inVars, fsVars, ctxVars, pend, task, queue>>

BJ_BundleInstall ==
    /\ pc = "bj_bundle"
    /\ Run("bundle install", <<>>, "bj_version")
    /\ UNCHANGED <<inVars, fsVars, ctxVars, pend, task, queue>>

BJ_Version ==
    /\ pc = "bj_version"
    /\ Run(jekyll_cmd \o " -v", <<>>, "bj_build")
    /\ UNCHANGED <<inVars, fsVars, ctxVars, pend, task, queue>>

JekyllBuildCmd == jekyll_cmd \o " build --destination " \o SITE_BUILD_DIR

BJ_Build ==
    /\ pc = "bj_build"
    /\ Run(JekyllBuildCmd,
           build_env(args.branch, "owner", "repository", "site_prefix", args.base_url),
           "leave")
    /\ UNCHANGED <<inVars, fsVars, ctxVars, pend, task, queue>>

------------------------------------------------------------------------------
\* install_hugo and build_hugo

dl_url(version) ==
    "https://github.com/gohugoio/hugo/releases/download/" \o
    "v" \o version \o "/hugo_" \o version \o "_Linux-64bit.deb"

hugo_deb == WORKING_DIR \o "/" \o "hugo.deb"

\* requests.get(dl_url) and the write of hugo.deb; the request may raise
BH_Download ==
    /\ pc = "build_hugo"
    /\ \E ok \in BOOLEAN :
        IF ok
        THEN /\ log' = Append(log, Effect("download", dl_url(args.hugo_version)))
             /\ pc' = "bh_dpkg"
             /\ UNCHANGED <<exitCode, exc>>
        ELSE Raise("ConnectionError") /\ UNCHANGED log
    /\ UNCHANGED <<inVars, fsVars, ctxVars, pend, task, queue>>

BH_Dpkg ==
    /\ pc = "bh_dpkg"
    /\ Run("dpkg -i " \o hugo_deb, <<>>, "bh_version")
    /\ UNCHANGED <<inVars, fsVars, ctxVars, pend, task, queue>>

BH_Version ==
    /\ pc = "bh_version"
    /\ Run("hugo version", <<>>, "bh_enter")
    /\ pend' = node_context(NVMRC_is_file, <<Cd(CLONE_DIR_PATH)>>)
    /\ UNCHANGED <<inVars, fsVars, ctxVars, task, queue>>

hugo_args(base_url) ==
    ("--source . --destination " \o SITE_BUILD_DIR) \o
    (IF base_url # "" THEN " --baseUrl " \o base_url ELSE "")

BH_Build ==
    /\ pc = "bh_build"
    /\ Run("hugo " \o hugo_args(args.base_url),
           build_env(args.branch, "owner", "repository", "site_prefix", args.base_url),
           "leave")
    /\ UNCHANGED <<inVars, fsVars, ctxVars, pend, task, queue>>

------------------------------------------------------------------------------
\* build_static and its pre-task clean(which=CLONE_DIR_PATH/.git)

Clean ==
    /\ pc = "clean"
    /\ entries' = entries \ {".git"}
    /\ log' = Append(log, Effect("clean", ".git"))
    /\ pc' = "next"
    /\ UNCHANGED <<inVars, configYml, outExists, outEntries, files, ctxVars, pend,
                   task, queue, exitCode, exc>>

\* variant: os.makedirs(SITE_BUILD_DIR_PATH, exist_ok=True)
BS_MakedirsExistOk ==
    /\ pc = "build_static"
    /\ outExists' = TRUE
    /\ log' = Append(log, Effect("makedirs", SITE_BUILD_DIR_PATH))
    /\ files' = Listdir(entries, TRUE)
    /\ pc' = "bs_loop"
    /\ UNCHANGED <<inVars, configYml, entries, outEntries, ctxVars, pend, task, queue,
                   exitCode, exc>>

\* os.makedirs(SITE_BUILD_DIR_PATH) raises FileExistsError on an existing
\* directory; then files = os.listdir(CLONE_DIR_PATH)
BS_Makedirs ==
    /\ pc = "build_static"
    /\ IF outExists
       THEN Raise("FileExistsError") /\ UNCHANGED <<log, outExists, files>>
       ELSE /\ outExists' = TRUE
            /\ log' = Append(log, Effect("makedirs", SITE_BUILD_DIR_PATH))
            /\ files' = Listdir(entries, TRUE)
            /\ pc' = "bs_loop"
            /\ UNCHANGED <<exitCode, exc>>
    /\ UNCHANGED <<inVars, configYml, entries, outEntries, ctxVars, pend, task, queue>>

\* shutil.move(src, SITE_BUILD_DIR_PATH): moving the directory onto itself is
\* a rename of a path to the same path, and moves nothing
Move(file) ==
    /\ log' = Append(log, Effect("move", file))
    /\ IF file = SITE_BUILD_DIR /\ repo.outInClone
       THEN UNCHANGED <<entries, outEntries>>
       ELSE /\ entries' = entries \ {file}
            /\ outEntries' = outEntries \cup {file}

\* one round of `for file in files`, in the order of os.listdir (any order)
BS_Loop ==
    /\ pc = "bs_loop"
    /\ IF files = {}
       THEN pc' = "next" /\ UNCHANGED <<files, entries, outEntries, log>>
       ELSE \E file \in files :
              /\ files' = files \ {file}
              /\ pc' = pc
              /\ \E is_not \in IsNot(file) :
                    IF is_not
                    THEN Move(file)
                    ELSE UNCHANGED <<entries, outEntries, log>>
    /\ UNCHANGED <<inVars, configYml, outExists, ctxVars, pend, task, queue,
                   exitCode, exc>>

------------------------------------------------------------------------------

Next ==
    \/ StartTask \/ Finish \/ Leave \/ Unwind \/ EnterContext
    \/ SN_EnterCd \/ SN_EnterSource \/ SN_NvmInstall \/ SN_NodeVersion
    \/ SN_NpmVersion \/ SN_CheckPackage \/ SN_NpmInstall
    \/ RF_Check \/ RF_Run
    \/ SR_EnterSource \/ SR_Install \/ SR_RubyV
    \/ BJ_Append \/ BJ_GemInstall \/ BJ_BundleInstall \/ BJ_Version \/ BJ_Build
    \/ BH_Download \/ BH_Dpkg \/ BH_Version \/ BH_Build
    \/ Clean \/ BS_Makedirs \/ BS_Loop

Spec == Init /\ [][Next]_vars

------------------------------------------------------------------------------
\* Reading the log.

Range(s) == {s[i] : i \in DOMAIN s}

\* positions of the subprocesses that ran `cmd`
Runs(cmd) == {i \in DOMAIN log : log[i].op = "run" /\ log[i].cmd = cmd}

\* positions of the file operations `op`
Ops(op) == {i \in DOMAIN log : log[i].op = op}

\* positions of the effects of the tasks in `tasks`
ByTask(tasks) == {i \in DOMAIN log : log[i].task \in tasks}

Terminated == pc \in {"done", "aborted"}

------------------------------------------------------------------------------
\* C1: whatever the generator kind, when package.json declares a
\* "federalist" script, `npm run federalist` runs before every
\* strategy-specific step (Ruby setup, the _config.yml append, the hugo
\* download and install, the removal of .git, the creation of the output
\* directory, the moves), never more than once, and exactly once in a build
\* that completes; when the script is not declared it never runs.

FedRuns == Runs("npm run federalist")

FedDeclared ==
    /\ repo.packageJson.is_file
    /\ repo.packageJson.valid
    /\ "scripts" \in repo.packageJson.keys
    /\ "federalist" \in repo.packageJson.scripts

StrategySteps == DOMAIN log \ ByTask({"setup_node", "run_federalist_script"})

C1_FederalistRunsFirst ==
    /\ Cardinality(FedRuns) <= 1
    /\ ~FedDeclared => FedRuns = {}
    /\ FedDeclared =>
         /\ \A i \in StrategySteps : \E j \in FedRuns : j < i
         /\ pc = "done" => Cardinality(FedRuns) = 1

C1_Witness ==
    /\ FedDeclared
    /\ pc = "done"
    /\ args.kind = "build_static"
    /\ Ops("move") # {}
    /\ Cardinality(FedRuns) = 1

------------------------------------------------------------------------------
\* C2: once a subprocess started by ctx.run exits non-zero, the program
\* aborts with that exit code and nothing else happens: the failed run is the
\* last effect in the log, and what was not done before it stays undone.

Failed == log # <<>> /\ Last(log).op = "run" /\ Last(log).code # 0

C2_AbortOnFailure ==
    /\ \A i \in DOMAIN log : log[i].code # 0 => i = Len(log)
    /\ Failed =>
         /\ pc \in {"unwind", "aborted"}
         /\ exitCode = Last(log).code
         /\ Ops("append") = {} => configYml = repo.configYml0
         /\ Ops("makedirs") = {} => outEntries = {}
    /\ pc = "done" => exitCode = 0 /\ ~Failed

C2_Witness ==
    /\ pc = "aborted"
    /\ Failed
    /\ exitCode = 2
    /\ Last(log).cmd = "bundle install"
    /\ Len(log) >= 3

------------------------------------------------------------------------------
\* C3: build_static moves every entry of the clone directory but the output
\* directory into the output directory, and never hands the output directory
\* itself to the move.

C3_OutputDirNeverMoved ==
    /\ \A i \in Ops("move") : log[i].cmd # SITE_BUILD_DIR
    /\ (pc = "done" /\ args.kind = "build_static") => entries = {}

------------------------------------------------------------------------------
\* C4: the context managers a task enters are left in reverse order of
\* entry, on a normal end and on a failure alike: the Context's prefixes and
\* directories are always exactly those of the with-blocks still open, and
\* between tasks and at the end of the program none is left.

Select(s, kind) ==
    LET F[i \in 0..Len(s)] ==
            IF i = 0 THEN <<>>
            ELSE IF s[i].kind = kind THEN Append(F[i - 1], s[i].arg) ELSE F[i - 1]
    IN  F[Len(s)]

TaskNames ==
    {"setup_node", "run_federalist_script", "setup_ruby", "build_jekyll",
     "build_hugo", "clean", "build_static"}

C4_ContextsReleased ==
    /\ acq = stack \o Reverse(rel)
    /\ command_prefixes = Select(stack, "prefix")
    /\ command_cwds = Select(stack, "cd")
    /\ pc \in {"next", "done", "aborted"} \cup TaskNames =>
         /\ stack = <<>>
         /\ command_prefixes = <<>>
         /\ command_cwds = <<>>
         /\ rel = Reverse(acq)

C4_Witness ==
    /\ pc = "aborted"
    /\ exc = "UnexpectedExit"
    /\ task = "build_jekyll"
    /\ Len(acq) = 4
    /\ rel = Reverse(acq)

------------------------------------------------------------------------------
\* C5: the contexts of node_context are, in order, the nvm init script,
\* then `nvm use` exactly when .nvmrc exists, then the caller's contexts as
\* given; with and without .nvmrc the result differs by that one entry only.

InNodeContext ==
    pc \in {"rf_run", "bj_gem", "bj_bundle", "bj_version", "bj_build", "bh_build"}

CallerContexts ==
    IF task = "build_jekyll"
    THEN <<SourceRvm, Cd(CLONE_DIR_PATH)>>
    ELSE <<Cd(CLONE_DIR_PATH)>>

WithoutUse(s) == SelectSeq(s, LAMBDA cm : cm # NvmUse)

C5_NodeContextOrder ==
    /\ InNodeContext =>
         /\ Head(stack) = SourceNvm
         /\ repo.nvmrc =>
              /\ stack[2] = NvmUse
              /\ SubSeq(stack, 3, Len(stack)) = CallerContexts
         /\ ~repo.nvmrc => Tail(stack) = CallerContexts
         /\ command_prefixes[1] = "source " \o NVM_SH_PATH
    /\ \A more \in {<<>>, <<Cd(CLONE_DIR_PATH)>>, <<SourceRvm, Cd(CLONE_DIR_PATH)>>} :
         /\ WithoutUse(node_context(TRUE, more)) = node_context(FALSE, more)
         /\ Len(node_context(TRUE, more)) = Len(node_context(FALSE, more)) + 1

C5_Witness ==
    /\ pc = "bj_build"
    /\ repo.nvmrc
    /\ stack = <<SourceNvm, NvmUse, SourceRvm, Cd(CLONE_DIR_PATH)>>

------------------------------------------------------------------------------
\* C6: setup_node runs `npm install --production` in the clone directory
\* with the nvm init script sourced, under `nvm use` only when .nvmrc
\* exists.

C6_NvmUseOnlyWithNvmrc ==
    \A i \in Runs("npm install --production") :
        /\ log[i].cwd = CLONE_DIR_PATH
        /\ log[i].prefixes[1] = "source " \o NVM_SH_PATH
        /\ ("nvm use" \in Range(log[i].prefixes)) <=> repo.nvmrc

------------------------------------------------------------------------------
\* C7: with a version in .ruby-version, setup_ruby attempts `rvm install` of
\* exactly that version, and runs `ruby -v` afterwards whether the install
\* succeeded or failed.

SetupRubyRuns == ByTask({"setup_ruby"})

C7_RvmInstallsPinnedVersion ==
    (RUBY_VERSION_is_file /\ ruby_version # "" /\ SetupRubyRuns # {}) =>
        /\ \E i \in SetupRubyRuns : log[i].cmd = "rvm install " \o ruby_version
        /\ Terminated => Runs("ruby -v") # {}

------------------------------------------------------------------------------
\* C8, as stated: without package.json, setup_node and run_federalist_script
\* run no installation command at all and not the federalist script, and
\* has_federalist_script is false.

JsSteps == ByTask({"setup_node", "run_federalist_script"})

C8_NoInstallAtAll ==
    ~repo.packageJson.is_file =>
        /\ \A i \in JsSteps :
              log[i].cmd \notin {"nvm install", "npm install --production",
                                 "npm run federalist"}
        /\ ~has_federalist_script

\* C8, amended: without package.json, setup_node and run_federalist_script
\* run neither `npm install --production` nor the federalist script, and
\* has_federalist_script is false; `nvm install` is still run, and only when
\* .nvmrc exists.

C8_NoNpmInstall ==
    ~repo.packageJson.is_file =>
        /\ \A i \in JsSteps :
              /\ log[i].cmd \notin {"npm install --production", "npm run federalist"}
              /\ log[i].cmd = "nvm install" => repo.nvmrc
              /\ "nvm use" \notin Range(log[i].prefixes)
        /\ ~has_federalist_script

C8_Witness ==
    /\ ~repo.packageJson.is_file
    /\ repo.nvmrc
    /\ pc = "done"
    /\ Runs("nvm install") # {}
    /\ Runs("npm --version") # {}

------------------------------------------------------------------------------
\* C9: build_jekyll appends to _config.yml at most once, before the jekyll
\* build command and exactly once in a build that reaches it: a newline,
\* "baseurl: <base_url>", "branch: <branch>", then the config text as given;
\* what the file held before stays in front.

Appends == Ops("append")

JekyllBuilds ==
    Runs("jekyll build --destination _site")
        \cup Runs("bundle exec jekyll build --destination _site")

AppendedText ==
    "\n" \o "baseurl: " \o args.base_url \o "\n" \o
    "branch: " \o args.branch \o "\n" \o args.config

C9_ConfigAppendedOnce ==
    /\ Cardinality(Appends) <= 1
    /\ \A i \in JekyllBuilds : \E j \in Appends : j < i
    /\ (pc = "done" /\ args.kind = "build_jekyll") => JekyllBuilds # {}
    /\ Appends = {} => configYml = repo.configYml0
    /\ Appends # {} => configYml = repo.configYml0 \o AppendedText

C9_Witness ==
    /\ JekyllBuilds # {}
    /\ args.base_url = "/x"
    /\ args.branch = "main"
    /\ args.config = "foo: bar\n"
    /\ configYml = "title: t\n\nbaseurl: /x\nbranch: main\nfoo: bar\n"

------------------------------------------------------------------------------
\* C10: when the output directory exists as the body of build_static
\* starts, creating it fails and the build aborts with nothing moved; a
\* build that did create it found it missing.

C10_ExistingOutputAborts ==
    /\ [][(pc = "build_static" /\ outExists) =>
            /\ pc' = "unwind"
            /\ exc' = "FileExistsError"
            /\ log' = log
            /\ entries' = entries
            /\ outEntries' = outEntries]_vars
    /\ [](exc = "FileExistsError" =>
            /\ pc \in {"unwind", "aborted"}
            /\ exitCode # 0
            /\ Ops("makedirs") = {}
            /\ Ops("move") = {}
            /\ outEntries = {})

C10_Witness ==
    /\ exc = "FileExistsError"
    /\ pc = "aborted"
    /\ entries = {"a.txt", "b"}
    /\ outEntries = {}

====
